---- MODULE Spec2Model ----
(***************************************************************************)
(* Model of bingwallpaper (src/src/main.rs): the main function with its    *)
(* autostart registration and scheduler loop, and the task run_task that   *)
(* main spawns on a blocking worker (get_screen_resolution,                *)
(* download_bing_wallpaper, download_image, set_wallpaper).                *)
(*                                                                         *)
(* Instants are whole seconds since midnight UTC.  Every call into the     *)
(* operating system, the network or a library that can fail is a           *)
(* nondeterministic choice over its outcomes.                              *)
(***************************************************************************)
EXTENDS Integers, FiniteSets

VARIABLES
    pcm,        \* position of main
    exitReason, \* why main returned ("none" while it runs)
    startup,    \* outcome of add_to_startup: "pending", "ok", "failed"
    regCalls,   \* number of calls of add_to_startup
    runs,       \* number of run_task invocations spawned so far
    now,        \* main's local `now` (line 187)
    next,       \* main's local `next` (line 189)
    clock,      \* the system's wall clock (UTC)
    tpc,        \* position of the spawned task
    result,     \* what the task's JoinHandle yields: "ok", "err", "panic"
    inflight,   \* number of run_task invocations started and not yet returned
    resOk,      \* outcome of get_screen_resolution in this run
    meta,       \* what this run learnt from the metadata request
    key,        \* fullstartdate of this run's metadata (0: none yet)
    preFile,    \* state of <cache_dir>/<key>.jpg when this run learnt its key
    hit,        \* this run found the cache file existing (line 74)
    reqMeta,    \* metadata HTTP requests issued by this run
    reqImg,     \* image HTTP requests issued by this run
    mkdir,      \* this run created the Images directory
    wrote,      \* this run called File::create on the cache file
    copyFailed, \* this run's body copy failed after File::create
    setCalls,   \* SystemParametersInfoW calls made by this run
    dirExists,  \* %APPDATA%/BingWallpaper/Images exists
    files,      \* cache file per key: "absent", "partial", "complete"
    wallpaper,  \* key of the file set as desktop background (0: untouched)
    dlReqs      \* per key: image requests of the run that completed its download

mainVars == <<pcm, exitReason, startup, regCalls, runs, now, next>>
runVars  == <<resOk, meta, key, preFile, hit, reqMeta, reqImg, mkdir, wrote,
              copyFailed, setCalls>>
taskVars == <<tpc, result, inflight>>
diskVars == <<dirExists, files, wallpaper, dlReqs>>
vars     == <<mainVars, clock, taskVars, runVars, diskVars>>

----------------------------------------------------------------------------
(* Bounds of the exploration *)

\* distinct fullstartdate values the metadata endpoint may return
NumKeys == 2
\* run_task invocations explored (the startup run and the ticks after it)
MaxRuns == 3

Keys == 1..NumKeys

\* wall-clock instants at which the process may be started
StartClocks == {12 * 3600 + 3 * 60, 12 * 3600 + 9 * 60 + 59, 12 * 3600 + 10 * 60}
\* wall-clock seconds a task run may take
TaskElapsed == {0, 1}
\* change of the wall clock between main's sample (line 187) and the
\* schedule's own sample (line 189): time passing, or the clock being set back
SampleDrift == {0 - 2, 0, 1}

----------------------------------------------------------------------------
(* The schedule "0 */10 * * * *" (line 178) *)

CronSeconds == {0}
CronMinutes == {m \in 0..59 : m % 10 = 0}

Min(S) == CHOOSE x \in S : \A y \in S : x <= y

\* mutant: the search starts at the given instant itself
NextFireInclusive(t) ==
    LET h == t \div 3600
        m == (t \div 60) % 60
        s == t % 60
        cand == {mm \in CronMinutes :
                    mm > m \/ (mm = m /\ \E ss \in CronSeconds : ss >= s)}
    IN  IF cand # {}
        THEN LET mm == Min(cand)
                 ss == IF mm = m THEN Min({x \in CronSeconds : x >= s})
                                 ELSE Min(CronSeconds)
             IN  h * 3600 + mm * 60 + ss
        ELSE (h + 1) * 3600 + Min(CronMinutes) * 60 + Min(CronSeconds)

\* schedule.upcoming(UTC).next() evaluated at instant t: the search starts one
\* second after t and walks hour, minute, second upwards to the first match
NextFire(t) ==
    LET q == t + 1
        h == q \div 3600
        m == (q \div 60) % 60
        s == q % 60
        cand == {mm \in CronMinutes :
                    mm > m \/ (mm = m /\ \E ss \in CronSeconds : ss >= s)}
    IN  IF cand # {}
        THEN LET mm == Min(cand)
                 ss == IF mm = m THEN Min({x \in CronSeconds : x >= s})
                                 ELSE Min(CronSeconds)
             IN  h * 3600 + mm * 60 + ss
        ELSE (h + 1) * 3600 + Min(CronMinutes) * 60 + Min(CronSeconds)

\* Duration::to_std(&duration) (line 200) is Ok exactly for a non-negative duration
ToStdOk(d) == d >= 0

----------------------------------------------------------------------------
(* Decisions of the code, one operator each *)

\* mutant: a failed registration is logged and main carries on
AfterStartupContinue(ok) == "spawn_startup"

\* add_to_startup().context(..)? (line 175)
AfterStartup(ok) == IF ok THEN "spawn_startup" ELSE "exited"

\* mutant: main goes on without waiting for the task
JoinReadyNoWait == TRUE

\* .await on the JoinHandle (lines 182, 202) resumes when the task has returned
JoinReady == tpc = "ret"

\* mutant: the task's error is propagated with ? as well
TaskBoundaryPropagate(r) == IF r = "ok" THEN "now" ELSE "exited"

\* `if let Err(e) = spawn_blocking(..).await?` (lines 182-184, 202-204): a
\* JoinError (the task panicked) returns from main, an Err of run_task is logged
TaskBoundary(r) == IF r = "panic" THEN "exited" ELSE "now"

\* mutant: the resolution error is swallowed and the run goes on
AfterResolutionIgnore(ok) == "meta_send"

\* get_screen_resolution()? in run_task (line 210)
AfterResolution(ok) == IF ok THEN "meta_send" ELSE "ret"

\* mutant: the existence check is skipped
CacheHitNever(k) == FALSE

\* file_path.exists() (line 74)
CacheHit(k) == files[k] # "absent"

\* mutant: the partial file is removed when the copy fails
AfterCopyFailCleanup(f) == "absent"

\* copy(..)? (line 106): the created file is left as it is
AfterCopyFail(f) == f

----------------------------------------------------------------------------
(* Initial state: the process has just started, nothing is cached *)

Init ==
    /\ pcm = "startup" /\ exitReason = "none" /\ startup = "pending"
    /\ regCalls = 0 /\ runs = 0 /\ now = 0 /\ next = 0
    /\ clock \in StartClocks
    /\ tpc = "idle" /\ result = "none" /\ inflight = 0
    /\ resOk = "none" /\ meta = "none" /\ key = 0 /\ preFile = "none"
    /\ hit = FALSE /\ reqMeta = 0 /\ reqImg = 0 /\ mkdir = FALSE
    /\ wrote = FALSE /\ copyFailed = FALSE /\ setCalls = 0
    /\ dirExists \in BOOLEAN
    /\ files = [k \in Keys |-> "absent"]
    /\ wallpaper = 0
    /\ dlReqs = [k \in Keys |-> 0]

----------------------------------------------------------------------------
(* main *)

\* line 175
MainStartup ==
    /\ pcm = "startup"
    /\ \E ok \in BOOLEAN :
        /\ regCalls' = regCalls + 1
        /\ startup' = IF ok THEN "ok" ELSE "failed"
        /\ pcm' = AfterStartup(ok)
        /\ exitReason' = IF pcm' = "exited" THEN "startup" ELSE "none"
    /\ UNCHANGED <<runs, now, next, clock, taskVars, runVars, diskVars>>

\* spawn_blocking(|| run_task()) (lines 182, 202)
MainSpawn ==
    /\ pcm \in {"spawn_startup", "spawn_tick"}
    /\ pcm' = IF pcm = "spawn_startup" THEN "await_startup" ELSE "await_tick"
    /\ runs' = runs + 1
    /\ tpc' = "res" /\ result' = "none" /\ inflight' = inflight + 1
    /\ resOk' = "none" /\ meta' = "none" /\ key' = 0 /\ preFile' = "none"
    /\ hit' = FALSE /\ reqMeta' = 0 /\ reqImg' = 0 /\ mkdir' = FALSE
    /\ wrote' = FALSE /\ copyFailed' = FALSE /\ setCalls' = 0
    /\ UNCHANGED <<exitReason, startup, regCalls, now, next, clock, diskVars>>

\* .await? and the if-let around it (lines 182-184, 202-204)
MainAwait ==
    /\ pcm \in {"await_startup", "await_tick"}
    /\ JoinReady
    /\ pcm' = TaskBoundary(result)
    /\ exitReason' = IF pcm' = "exited"
                     THEN (IF pcm = "await_startup" THEN "join_startup"
                                                    ELSE "join_tick")
                     ELSE exitReason
    /\ tpc' = IF tpc = "ret" THEN "joined" ELSE tpc
    /\ \E e \in TaskElapsed : clock' = clock + e
    /\ UNCHANGED <<startup, regCalls, runs, now, next, result, inflight,
                   runVars, diskVars>>

\* let now = chrono::Utc::now() (line 187)
MainNow ==
    /\ pcm = "now"
    /\ runs < MaxRuns
    /\ now' = clock
    /\ pcm' = "next"
    /\ UNCHANGED <<exitReason, startup, regCalls, runs, next, clock,
                   taskVars, runVars, diskVars>>

\* schedule.upcoming(chrono_tz::UTC).next() (lines 189-195); the schedule reads
\* the clock itself.  Its None arm needs an instant past the schedule's last
\* year and is not reached.
MainNext ==
    /\ pcm = "next"
    /\ \E d \in SampleDrift :
        /\ clock' = clock + d
        /\ next' = NextFire(clock')
    /\ pcm' = "sleep"
    /\ UNCHANGED <<exitReason, startup, regCalls, runs, now,
                   taskVars, runVars, diskVars>>

\* duration = next - now; sleep(Duration::to_std(&duration)?) (lines 197-200)
MainSleep ==
    /\ pcm = "sleep"
    /\ LET duration == next - now
       IN  IF ToStdOk(duration)
           THEN /\ clock' = clock + duration
                /\ pcm' = "spawn_tick"
                /\ UNCHANGED exitReason
           ELSE /\ pcm' = "exited"
                /\ exitReason' = "to_std"
                /\ UNCHANGED clock
    /\ UNCHANGED <<startup, regCalls, runs, now, next,
                   taskVars, runVars, diskVars>>

----------------------------------------------------------------------------
(* run_task, on the blocking worker *)

\* the task moves to position p; at "ret" it has returned r
Goto(p, r) ==
    /\ tpc' = p
    /\ IF p = "ret"
       THEN result' = r /\ inflight' = inflight - 1
       ELSE UNCHANGED <<result, inflight>>

\* get_screen_resolution()? (lines 21-38, 210)
TaskResolution ==
    /\ tpc = "res"
    /\ \E ok \in BOOLEAN :
        /\ resOk' = IF ok THEN "ok" ELSE "fail"
        /\ Goto(AfterResolution(ok), "err")
    /\ UNCHANGED <<mainVars, clock, meta, key, preFile, hit, reqMeta, reqImg,
                   mkdir, wrote, copyFailed, setCalls, diskVars>>

\* Client::new() and client.get(json_url).send() (lines 46-52)
TaskMetaSend ==
    /\ tpc = "meta_send"
    /\ \/ /\ Goto("ret", "panic")          \* Client::new() panics
          /\ UNCHANGED <<reqMeta, meta>>
       \/ /\ reqMeta' = reqMeta + 1        \* the request fails
          /\ meta' = "sendErr"
          /\ Goto("ret", "err")
       \/ /\ reqMeta' = reqMeta + 1        \* a response arrives
          /\ Goto("meta_json", "none")
          /\ UNCHANGED meta
    /\ UNCHANGED <<mainVars, clock, resOk, key, preFile, hit, reqImg, mkdir,
                   wrote, copyFailed, setCalls, diskVars>>

\* response.json()? and json_data["images"].get(0) (lines 53-58, 84-88)
TaskMetaJson ==
    /\ tpc = "meta_json"
    /\ \/ /\ meta' = "badJson"             \* the body is not JSON
          /\ Goto("ret", "err")
          /\ UNCHANGED <<key, preFile>>
       \/ /\ meta' = "noImages"            \* JSON without images[0]: the else arm
          /\ Goto("ret", "ok")
          /\ UNCHANGED <<key, preFile>>
       \/ \E k \in Keys :                  \* images[0] with fullstartdate k
          /\ meta' = "image"
          /\ key' = k
          /\ preFile' = files[k]
          /\ Goto("dir", "none")
    /\ UNCHANGED <<mainVars, clock, resOk, hit, reqMeta, reqImg, mkdir, wrote,
                   copyFailed, setCalls, diskVars>>

\* env::var("APPDATA")? and create_dir_all (lines 67-71)
TaskCacheDir ==
    /\ tpc = "dir"
    /\ \/ /\ Goto("ret", "err")            \* APPDATA is not set
          /\ UNCHANGED <<mkdir, dirExists>>
       \/ /\ dirExists
          /\ Goto("check", "none")
          /\ UNCHANGED <<mkdir, dirExists>>
       \/ /\ ~dirExists                    \* create_dir_all succeeds
          /\ dirExists' = TRUE
          /\ mkdir' = TRUE
          /\ Goto("check", "none")
       \/ /\ ~dirExists                    \* create_dir_all fails
          /\ Goto("ret", "err")
          /\ UNCHANGED <<mkdir, dirExists>>
    /\ UNCHANGED <<mainVars, clock, resOk, meta, key, preFile, hit, reqMeta,
                   reqImg, wrote, copyFailed, setCalls, files, wallpaper, dlReqs>>

\* if file_path.exists() { return Ok(()) } (lines 72-77)
TaskCheck ==
    /\ tpc = "check"
    /\ IF CacheHit(key)
       THEN hit' = TRUE /\ Goto("ret", "ok")
       ELSE UNCHANGED hit /\ Goto("download", "none")
    /\ UNCHANGED <<mainVars, clock, resOk, meta, key, preFile, reqMeta, reqImg,
                   mkdir, wrote, copyFailed, setCalls, diskVars>>

\* download_image: Client::new(), Url::parse(url)?, send() (lines 94-100)
TaskImageSend ==
    /\ tpc = "download"
    /\ \/ /\ Goto("ret", "panic")          \* Client::new() panics
          /\ UNCHANGED reqImg
       \/ /\ Goto("ret", "err")            \* the URL does not parse
          /\ UNCHANGED reqImg
       \/ /\ reqImg' = reqImg + 1          \* the request fails
          /\ Goto("ret", "err")
       \/ /\ reqImg' = reqImg + 1          \* a response arrives
          /\ Goto("create", "none")
    /\ UNCHANGED <<mainVars, clock, resOk, meta, key, preFile, hit, reqMeta,
                   mkdir, wrote, copyFailed, setCalls, diskVars>>

\* File::create(file_path)? (line 103)
TaskCreate ==
    /\ tpc = "create"
    /\ \/ /\ Goto("ret", "err")
          /\ UNCHANGED <<wrote, files>>
       \/ /\ wrote' = TRUE
          /\ files' = [files EXCEPT ![key] = "partial"]
          /\ Goto("copy", "none")
    /\ UNCHANGED <<mainVars, clock, resOk, meta, key, preFile, hit, reqMeta,
                   reqImg, mkdir, copyFailed, setCalls, dirExists, wallpaper,
                   dlReqs>>

\* copy(&mut response, &mut file)? (line 106)
TaskCopy ==
    /\ tpc = "copy"
    /\ \/ /\ copyFailed' = TRUE
          /\ files' = [files EXCEPT ![key] = AfterCopyFail(files[key])]
          /\ Goto("ret", "err")
          /\ UNCHANGED dlReqs
       \/ /\ files' = [files EXCEPT ![key] = "complete"]
          /\ dlReqs' = [dlReqs EXCEPT ![key] = reqImg]
          /\ Goto("set", "none")
          /\ UNCHANGED copyFailed
    /\ UNCHANGED <<mainVars, clock, resOk, meta, key, preFile, hit, reqMeta,
                   reqImg, mkdir, wrote, setCalls, dirExists, wallpaper>>

\* set_wallpaper(file_path)? (lines 83, 112-144)
TaskSetWallpaper ==
    /\ tpc = "set"
    /\ IF files[key] = "absent"
       THEN /\ Goto("ret", "err")          \* line 114
            /\ UNCHANGED <<setCalls, wallpaper>>
       ELSE \/ /\ Goto("ret", "err")       \* canonicalize fails
               /\ UNCHANGED <<setCalls, wallpaper>>
            \/ /\ setCalls' = setCalls + 1 \* SystemParametersInfoW returns 0
               /\ Goto("ret", "err")
               /\ UNCHANGED wallpaper
            \/ /\ setCalls' = setCalls + 1
               /\ wallpaper' = key
               /\ Goto("ret", "ok")
    /\ UNCHANGED <<mainVars, clock, resOk, meta, key, preFile, hit, reqMeta,
                   reqImg, mkdir, wrote, copyFailed, dirExists, files, dlReqs>>

----------------------------------------------------------------------------

Next ==
    \/ MainStartup
    \/ MainSpawn
    \/ MainAwait
    \/ MainNow
    \/ MainNext
    \/ MainSleep
    \/ TaskResolution
    \/ TaskMetaSend
    \/ TaskMetaJson
    \/ TaskCacheDir
    \/ TaskCheck
    \/ TaskImageSend
    \/ TaskCreate
    \/ TaskCopy
    \/ TaskSetWallpaper

Spec == Init /\ [][Next]_vars

----------------------------------------------------------------------------
(* Properties *)

Awaiting == pcm \in {"await_startup", "await_tick"}
Returned == tpc \in {"ret", "joined"}

\* C1: an Err returned by run_task, in the startup run or in a tick, never
\* makes main return at the task boundary: main leaves the boundary only for a
\* panicked task, and the step that consumes an Err result takes main to the
\* top of the loop (the sampling of `now`) with the process still running.
C1_TaskErrorsCaught ==
    /\ [](exitReason \in {"join_startup", "join_tick"} => result = "panic")
    /\ [][(Awaiting /\ tpc = "ret" /\ result = "err")
            => (pcm' = "now" /\ exitReason' = "none")]_vars

C1_Witness ==
    /\ pcm = "sleep" /\ runs = 2 /\ tpc = "joined" /\ result = "err"
    /\ exitReason = "none"

\* C2: once the scheduler loop has been entered, main never returns: neither
\* the conversion of next - now to a sleep duration nor the awaiting of a
\* tick's task ends the process.
C2_LoopRunsForever == exitReason \notin {"to_std", "join_tick"}

\* C3: a call of download_bing_wallpaper whose metadata names a key that an
\* earlier call downloaded completely issues no image request and does not
\* touch the file, returns Ok when it reaches the existence check, and the
\* requests of the two calls together are exactly one.
C3_FetchIdempotent ==
    preFile = "complete" =>
        /\ reqImg = 0
        /\ ~wrote
        /\ files[key] = "complete"
        /\ dlReqs[key] + reqImg = 1
        /\ (hit /\ Returned => result = "ok")

C3_Witness ==
    /\ tpc = "ret" /\ preFile = "complete" /\ hit /\ result = "ok"
    /\ reqMeta = 1

\* C4: a run that obtains the metadata and finds the cache file existing still
\* executes the wallpaper-set step.
C4_CacheHitStillSets == (Returned /\ hit) => setCalls >= 1

\* C5: a run whose metadata is valid JSON without images[0] returns an error,
\* and downloads and sets nothing.
C5_NoImagesIsError ==
    (Returned /\ meta = "noImages")
        => (result = "err" /\ reqImg = 0 /\ setCalls = 0)

\* C6: a run in which get_screen_resolution fails returns an error at once:
\* no HTTP request, no directory or file created, no wallpaper-set call.
C6_ResolutionFailureAborts ==
    resOk = "fail" =>
        /\ Returned /\ result = "err"
        /\ reqMeta = 0 /\ reqImg = 0
        /\ ~mkdir /\ ~wrote
        /\ setCalls = 0

C6_Witness == resOk = "fail" /\ tpc = "ret" /\ runs = 2

\* C7: at most one run_task invocation is in flight, and while main samples
\* the time, computes the next fire time, sleeps or is about to spawn a tick,
\* none is: the previous run has been joined.
C7_OneRunInFlight ==
    /\ inflight <= 1
    /\ pcm \in {"now", "next", "sleep", "spawn_tick"}
          => (inflight = 0 /\ tpc = "joined")
    /\ inflight = 1 => Awaiting

C7_Witness == inflight = 1 /\ runs = 2 /\ tpc = "copy"

\* C8: add_to_startup is called once, before any task is spawned; when it
\* fails main returns without spawning a task or entering the loop.
C8_AutostartOnceAndFatal ==
    /\ regCalls <= 1
    /\ runs > 0 => (regCalls = 1 /\ startup = "ok")
    /\ startup = "failed"
          => (pcm = "exited" /\ exitReason = "startup" /\ runs = 0
              /\ tpc = "idle" /\ inflight = 0)

C8_Witness == startup = "failed" /\ pcm = "exited" /\ regCalls = 1

\* an instant whose second is 0 and whose minute is a multiple of 10
IsFire(x) == x % 60 = 0 /\ ((x \div 60) % 60) % 10 = 0
\* n is the smallest fire instant strictly later than t
SoonestAfter(t, n) ==
    /\ IsFire(n)
    /\ n > t
    /\ \A y \in (t + 1)..(n - 1) : ~IsFire(y)

\* C9 as stated: the next-fire instant is the soonest one strictly after
\* main's `now`, and the sleep duration next - now is positive and at most
\* ten minutes.
C9_AsStated ==
    pcm = "sleep" =>
        /\ SoonestAfter(now, next)
        /\ next - now > 0
        /\ next - now <= 10 * 60

\* C9 (amended): the next-fire instant is the soonest one strictly after the
\* instant at which the schedule itself reads the clock; measured from that
\* instant it is positive and at most ten minutes away.
C9_NextFireFromScheduleSample ==
    pcm = "sleep" =>
        /\ SoonestAfter(clock, next)
        /\ next - clock > 0
        /\ next - clock <= 10 * 60

C9_Witness ==
    /\ pcm = "sleep"
    /\ clock = 12 * 3600 + 10 * 60
    /\ next = 12 * 3600 + 20 * 60

\* C10: a copy that fails after File::create leaves the partial file in place;
\* a later run with the same key finds it, issues no image request, does not
\* rewrite it and returns Ok, so the file stays partial.
C10_FailedDownloadPoisonsCache ==
    /\ (copyFailed /\ Returned) => (files[key] = "partial" /\ result = "err")
    /\ preFile = "partial"
          => /\ files[key] = "partial"
             /\ reqImg = 0 /\ ~wrote
             /\ (hit /\ Returned => result = "ok")

C10_Witness ==
    /\ tpc = "ret" /\ preFile = "partial" /\ hit /\ result = "ok"

====
